---- MODULE Spec2Model ----
(***************************************************************************)
(* Model of pitch_deck_agent.py: the /generate and /downloads/latest.pdf   *)
(* handlers, the two process-wide "last result" globals, and the PDF       *)
(* rendering loop with the page bookkeeping of the FPDF calls it makes.    *)
(*                                                                         *)
(* A text is a sequence of characters, each character a one-token string.  *)
(***************************************************************************)
EXTENDS Integers, Sequences, FiniteSets, TLC

VARIABLES
    last_generated_structure,  \* global, pitch_deck_agent.py:36
    last_company_info,         \* global, pitch_deck_agent.py:37
    resp,                      \* the response to the most recent request
    calls,                     \* collaborators invoked by the most recent request
    lastOk,                    \* history: what the latest successful /generate returned
    downloads,                 \* history: download responses since that /generate
    pc,                        \* concurrent serving: position of each worker
    loc,                       \* concurrent serving: locals of each worker
    issued,                    \* concurrent serving: requests accepted so far
    overlap                    \* history: two /generate write pairs have interleaved

vars == <<last_generated_structure, last_company_info, resp, calls, lastOk,
          downloads, pc, loc, issued, overlap>>

seqVars == <<resp, calls, lastOk, downloads>>
concVars == <<pc, loc, issued, overlap>>

\* Optional values: None is the empty tuple, a present value v is <<v>>.
NoneVal == <<>>
Some(v) == <<v>>
Val(o) == o[1]

-----------------------------------------------------------------------------
(* Characters and Python's str operations                                  *)

NL == "\n"
NonLatin1 == "U+20AC"          \* a character outside Latin-1 (the euro sign)
Whitespace == {" ", NL}        \* what str.strip() removes, within the alphabet
HashSpace == {"#", " "}        \* the argument of strip("# "), line 165

\* str.strip(chars): what lies between the first and the last character
\* that is not in cs.
StripChars(s, cs) ==
    LET keep == {i \in 1..Len(s) : s[i] \notin cs}
    IN IF keep = {} THEN <<>>
       ELSE SubSeq(s, CHOOSE i \in keep : \A j \in keep : i <= j,
                      CHOOSE i \in keep : \A j \in keep : i >= j)

\* str.strip()
Strip(s) == StripChars(s, Whitespace)

\* The k-th smallest element of a set of numbers
Nth(S, k) == CHOOSE x \in S : Cardinality({y \in S : y < x}) = k - 1

\* The pieces of s between the separators, each of width w, that start at
\* the positions of cuts
Pieces(s, cuts, w) ==
    [k \in 1..(Cardinality(cuts) + 1) |->
        SubSeq(s,
               IF k = 1 THEN 1 ELSE Nth(cuts, k - 1) + w,
               IF k = Cardinality(cuts) + 1 THEN Len(s) ELSE Nth(cuts, k) - 1)]

\* str.split("\n")
SplitLines(s) == Pieces(s, {i \in 1..Len(s) : s[i] = NL}, 1)

\* str.split("\n\n"): the separators are found left to right and do not
\* overlap, so in a run of newlines they start at its 1st, 3rd, 5th ...
\* character as long as two characters of the run remain.
NewlineRunStart(s, i) ==
    CHOOSE r \in 1..i : /\ \A j \in r..i : s[j] = NL
                        /\ (r = 1 \/ s[r - 1] # NL)

SplitBlank(s) ==
    Pieces(s, {i \in 1..(Len(s) - 1) : /\ s[i] = NL
                                       /\ s[i + 1] = NL
                                       /\ (i - NewlineRunStart(s, i)) % 2 = 0}, 2)

\* [x.strip() for x in parts if x.strip()]
StripAndKeep(parts) ==
    SelectSeq([k \in 1..Len(parts) |-> Strip(parts[k])], LAMBDA b : b # <<>>)

\* Slides without the "if s.strip()" filter
SlidesKeepEmpty(structure) ==
    LET parts == SplitBlank(structure) IN [k \in 1..Len(parts) |-> Strip(parts[k])]

\* line 159: slides = [s.strip() for s in structure.split("\n\n") if s.strip()]
Slides(structure) == StripAndKeep(SplitBlank(structure))

\* line 165: title = lines[0].strip("# ").strip()
SlideTitle(line) == Strip(StripChars(line, HashSpace))

\* .encode("latin1") succeeds on a text
Encodable(s) == \A i \in 1..Len(s) : s[i] # NonLatin1

-----------------------------------------------------------------------------
(* The FPDF document under construction: the pages written so far (each a  *)
(* sequence of cells) and the ordinate y of the next cell, in mm.          *)

PageHeight == 297       \* FPDF() default: A4 portrait
TopMargin == 10         \* FPDF() default margin (1 cm)
BottomMargin == 15      \* set_auto_page_break(auto=True, margin=15)
CoverTitleH == 60
CoverLineH == 10
HeadingH == 10
GapH == 10
BodyLineH == 8
FooterOffset == 20
FooterH == 10

\* page_break_trigger = h - margin
PageBreakTrigger == PageHeight - BottomMargin

\* pdf = FPDF(); pdf.set_auto_page_break(auto=True, margin=15)
NewPdf == [pages |-> <<>>, y |-> 0]

\* pdf.add_page(): a new last page, y back at the top margin
AddPage(pdf) == [pages |-> Append(pdf.pages, <<>>), y |-> TopMargin]

\* pdf.cell(0, h, txt, ln=ln): breaks the page first when the cell would pass
\* the trigger, writes the cell on the current page, then moves down when ln.
Cell(pdf, h, item, ln) ==
    LET p == IF pdf.y + h > PageBreakTrigger THEN AddPage(pdf) ELSE pdf
        n == Len(p.pages)
    IN [pages |-> [p.pages EXCEPT ![n] = Append(@, item)],
        y |-> IF ln THEN p.y + h ELSE p.y]

\* pdf.ln(h)
Ln(pdf, h) == [pdf EXCEPT !.y = @ + h]

\* pdf.set_y(-d): d above the bottom of the page
SetYFromBottom(pdf, d) == [pdf EXCEPT !.y = PageHeight - d]

\* What a cell shows: a kind (which call wrote it), its text, and for the
\* footer the two numbers of "Slide {i}/{total_slides}".
TextCell(kind, text) == [kind |-> kind, text |-> text, index |-> 0, total |-> 0]
FooterCell(i, total) == [kind |-> "footer", text |-> <<"Slide ">>, index |-> i, total |-> total]

\* pdf.multi_cell(0, h, txt): one trailing newline is dropped, then one cell
\* per line of txt, each with ln=2 (lines are short enough not to wrap).
RECURSIVE CellsOf(_, _, _, _)
CellsOf(pdf, h, kind, lines) ==
    IF lines = <<>> THEN pdf
    ELSE CellsOf(Cell(pdf, h, TextCell(kind, Head(lines)), TRUE),
                 h, kind, Tail(lines))

MultiCell(pdf, h, kind, txt) ==
    LET s == IF txt # <<>> /\ txt[Len(txt)] = NL
             THEN SubSeq(txt, 1, Len(txt) - 1) ELSE txt
    IN CellsOf(pdf, h, kind, SplitLines(s))

-----------------------------------------------------------------------------
(* download_generated_pdf, lines 148-178: the document                     *)

\* lines 152-156: the cover page
CoverPage(info) ==
    LET p1 == AddPage(NewPdf)
        p2 == Cell(p1, CoverTitleH,
                   TextCell("cover_title", <<"Pitch Deck for ">> \o info.title), TRUE)
    IN MultiCell(p2, CoverLineH, "cover",
                 <<"Website: ">> \o info.url \o <<NL, NL>> \o info.description)

\* lines 170-171: for line in lines[1:]: pdf.multi_cell(0, 8, line), here for
\* the lines lo..hi in order. The loop is folded by halves, which applies the
\* same calls in the same order; reading pdf.pages first (a page is always
\* open here) has the first half evaluated before the second starts, so the
\* evaluation nests only as deep as the halving.
RECURSIVE BodyLinesRange(_, _, _, _)
BodyLinesRange(pdf, lines, lo, hi) ==
    IF pdf.pages = <<>> \/ lo > hi THEN pdf
    ELSE IF lo = hi THEN MultiCell(pdf, BodyLineH, "body", lines[lo])
    ELSE LET mid == (lo + hi) \div 2
         IN BodyLinesRange(BodyLinesRange(pdf, lines, lo, mid), lines, mid + 1, hi)

BodyLines(pdf, lines) == BodyLinesRange(pdf, lines, 1, Len(lines))

\* lines 163-175: one pass of the slide loop
SlidePage(pdf, slide, i, total) ==
    LET lines == SplitLines(slide)
        p1 == AddPage(pdf)
        p2 == Cell(p1, HeadingH, TextCell("heading", SlideTitle(lines[1])), TRUE)
        p3 == Ln(p2, GapH)
        p4 == BodyLines(p3, Tail(lines))
        p5 == SetYFromBottom(p4, FooterOffset)
    IN Cell(p5, FooterH, FooterCell(i, total), FALSE)

\* lines 162-175: for i, slide in enumerate(slides, start=1)
RECURSIVE SlideLoop(_, _, _, _)
SlideLoop(pdf, slides, i, total) ==
    IF i > total THEN pdf
    ELSE SlideLoop(SlidePage(pdf, slides[i], i, total), slides, i + 1, total)

\* line 178: pdf.output(dest="S").encode("latin1") raises on a character
\* outside Latin-1 anywhere in the pages
PagesEncodable(pages) ==
    \A n \in 1..Len(pages) : \A c \in 1..Len(pages[n]) : Encodable(pages[n][c].text)

Response(req, status, body) == [req |-> req, status |-> status, body |-> body]

\* lines 148-190: the try block of the download handler
RenderDocument(info, structure) ==
    LET slides == Slides(structure)
        total == Len(slides)
        pdf == SlideLoop(CoverPage(info), slides, 1, total)
    IN IF PagesEncodable(pdf.pages)
       THEN Response("download", 200, [pages |-> pdf.pages, total |-> total])
       ELSE Response("download", 500, [error |-> "Failed to generate PDF"])

\* "not x" of Python for an optional text: None and the empty text are falsy
Falsy(o) == o = NoneVal \/ Val(o) = <<>>

\* The handler without the test of line 144: rendering None raises
DownloadResponseUnguarded(structure, info) ==
    IF structure = NoneVal \/ info = NoneVal
    THEN Response("download", 500, [error |-> "Failed to generate PDF"])
    ELSE RenderDocument(Val(info), Val(structure))

\* lines 139-190: the response of GET /downloads/latest.pdf. A stored company
\* info is a dict of three keys, so "not last_company_info" is "is None".
DownloadResponse(structure, info) ==
    IF Falsy(structure) \/ info = NoneVal
    THEN Response("download", 400, [error |-> "No recent presentation found"])
    ELSE RenderDocument(Val(info), Val(structure))

-----------------------------------------------------------------------------
(* The collaborators of /generate and what they can return                 *)

MaxLen == 6             \* longest outline text of the rendering runs
TallBodyLines == 32     \* body lines of the tall sample slide

\* n lines "b", each after a newline
LinesOfB(n) == [i \in 1..(2 * n) |-> IF i % 2 = 1 THEN NL ELSE "b"]

\* Request bodies: one get_json cannot use, one without "url", two with it.
Urls == {<<"a.com">>, <<"https://", "b.com">>}
RequestBodies ==
    {[kind |-> "malformed", url |-> <<>>], [kind |-> "json", url |-> <<>>]}
    \cup {[kind |-> "json", url |-> u] : u \in Urls}

\* What the scraper finds: a network or HTTP error, or a page.
ScrapeOutcomes ==
    {[ok |-> FALSE, title |-> <<>>, description |-> <<>>],
     [ok |-> TRUE, title |-> <<"A">>, description |-> <<"d">>],
     [ok |-> TRUE, title |-> <<"B", NonLatin1>>, description |-> <<>>]}

\* What the model call does: returns a text, or raises with a message.
RawOutlines ==
    {<<>>,
     <<" ", NL>>,
     <<"#", " ", "a">>,
     <<" ", "#", "a", NL, "b", NL, NL, "#", "b", "#", NL>>,
     <<"a", NL, NL, NL, NL, "b">>,
     <<"#", "a", NL, NonLatin1>>,
     <<"#", "a">> \o LinesOfB(TallBodyLines)}
ErrorMessages ==
    {<<"e">>, <<"e", NL, NL, "f">>, <<NonLatin1>>}
GeneratorOutcomes ==
    {[ok |-> TRUE, text |-> t] : t \in RawOutlines}
    \cup {[ok |-> FALSE, text |-> m] : m \in ErrorMessages}

\* lines 43-44: url.startswith(("http://", "https://"))
HasScheme(url) == url # <<>> /\ Head(url) \in {"http://", "https://"}

\* lines 40-61: fetch_company_info
FetchCompanyInfo(url, scrape) ==
    LET u == IF HasScheme(url) THEN url ELSE <<"https://">> \o url
    IN IF scrape.ok
       THEN [url |-> u, title |-> scrape.title, description |-> scrape.description]
       ELSE [error |-> "scrape failed"]

ErrorMarker == <<"#", " ", "Error generating structure:">>

\* lines 86-92: generate_pitch_deck
GeneratePitchDeck(gen) ==
    IF gen.ok THEN Strip(gen.text) ELSE ErrorMarker \o <<" ">> \o gen.text

\* presenton_core/app.py lines 7-25: the stub's JSON (the id comes from the clock)
LocalGenerate == [success |-> TRUE, edit_path |-> "/edit/{fake_id}"]

\* What a request did: the collaborators it invoked (how many times each) and
\* what they met. Kept beside the response for the properties to read.
NoCalls ==
    [request |-> "none", scraper |-> 0, scrape_failed |-> FALSE,
     generator |-> 0, generator_raised |-> FALSE, stub |-> 0]

\* lines 122-124: what the two globals become
SaveLatest(structure, company_info) ==
    [structure |-> Some(structure), info |-> Some(company_info)]

\* lines 101-102 raising, caught at lines 134-136
ExceptionOutcome ==
    [resp |-> Response("generate", 500, [error |-> "exception"]),
     save |-> NoneVal, calls |-> [NoCalls EXCEPT !.request = "malformed"]]

\* lines 104-105
MissingUrlOutcome ==
    [resp |-> Response("generate", 400, [error |-> "Missing 'url' field"]),
     save |-> NoneVal, calls |-> [NoCalls EXCEPT !.request = "missing_url"]]

\* The scraper called again after a failure
ScrapeFailedRetried(company_info) ==
    [resp |-> Response("generate", 400, [error |-> company_info.error]),
     save |-> NoneVal,
     calls |-> [NoCalls EXCEPT !.request = "url", !.scraper = 2, !.scrape_failed = TRUE]]

\* lines 109-110
ScrapeFailedOutcome(company_info) ==
    [resp |-> Response("generate", 400, [error |-> company_info.error]),
     save |-> NoneVal,
     calls |-> [NoCalls EXCEPT !.request = "url", !.scraper = 1, !.scrape_failed = TRUE]]

\* The assignments of lines 123-124 made to locals (no "global" statement)
GeneratedNotSaved(company_info, gen) ==
    [resp |-> Response("generate", 200,
                       [success |-> TRUE,
                        company_info |-> company_info,
                        deck_structure |-> GeneratePitchDeck(gen),
                        edit_url |-> LocalGenerate.edit_path]),
     save |-> NoneVal,
     calls |-> [request |-> "url", scraper |-> 1, scrape_failed |-> FALSE,
                generator |-> 1, generator_raised |-> ~gen.ok, stub |-> 1]]

\* lines 112-132
GeneratedOutcome(company_info, gen) ==
    LET structure == GeneratePitchDeck(gen)
        result == LocalGenerate
    IN [resp |-> Response("generate", 200,
                          [success |-> TRUE,
                           company_info |-> company_info,
                           deck_structure |-> structure,
                           edit_url |-> result.edit_path]),
        save |-> Some(SaveLatest(structure, company_info)),
        calls |-> [request |-> "url", scraper |-> 1, scrape_failed |-> FALSE,
                   generator |-> 1, generator_raised |-> ~gen.ok, stub |-> 1]]

\* lines 100-136: generate_api as a function of the request and of what the
\* collaborators do; save is the new value of the globals, or None
GenerateOutcome(body, scrape, gen) ==
    IF body.kind = "malformed" THEN ExceptionOutcome
    ELSE IF body.url = <<>> THEN MissingUrlOutcome
    ELSE LET company_info == FetchCompanyInfo(body.url, scrape)
         IN IF "error" \in DOMAIN company_info
            THEN ScrapeFailedOutcome(company_info)
            ELSE GeneratedOutcome(company_info, gen)

-----------------------------------------------------------------------------
(* Requests served one at a time                                           *)

Init ==
    /\ last_generated_structure = NoneVal
    /\ last_company_info = NoneVal
    /\ resp = Response("none", 0, [error |-> "none"])
    /\ calls = NoCalls
    /\ lastOk = NoneVal
    /\ downloads = <<>>
    /\ pc = <<>>
    /\ loc = <<>>
    /\ issued = 0
    /\ overlap = FALSE

\* A success that follows an earlier one with another company and outline
Replaces(earlier, body) ==
    /\ earlier # NoneVal
    /\ Val(earlier).company_info # body.company_info
    /\ Val(earlier).deck_structure # body.deck_structure

\* POST /generate
GenerateApi ==
    \E body \in RequestBodies, scrape \in ScrapeOutcomes, gen \in GeneratorOutcomes :
        LET out == GenerateOutcome(body, scrape, gen)
        IN /\ resp' = out.resp
           /\ calls' = out.calls
           /\ IF out.save = NoneVal
              THEN UNCHANGED <<last_generated_structure, last_company_info>>
              ELSE /\ last_generated_structure' = Val(out.save).structure
                   /\ last_company_info' = Val(out.save).info
           /\ IF out.resp.status = 200
              THEN /\ lastOk' = Some([company_info |-> out.resp.body.company_info,
                                      deck_structure |-> out.resp.body.deck_structure,
                                      generator |-> gen,
                                      replaced |-> Replaces(lastOk, out.resp.body)])
                   /\ downloads' = <<>>
              ELSE UNCHANGED <<lastOk, downloads>>
           /\ UNCHANGED concVars

\* The last two entries of a history
LastTwo(h) == IF Len(h) > 2 THEN SubSeq(h, Len(h) - 1, Len(h)) ELSE h

\* A download that hands the result out once and forgets it
DownloadAndForget ==
    /\ resp' = DownloadResponse(last_generated_structure, last_company_info)
    /\ calls' = NoCalls
    /\ downloads' = LastTwo(Append(downloads, resp'))
    /\ last_generated_structure' = NoneVal
    /\ last_company_info' = NoneVal
    /\ UNCHANGED lastOk
    /\ UNCHANGED concVars

\* GET /downloads/latest.pdf
DownloadGeneratedPdf ==
    /\ resp' = DownloadResponse(last_generated_structure, last_company_info)
    /\ calls' = NoCalls
    /\ downloads' = LastTwo(Append(downloads, resp'))
    /\ UNCHANGED <<last_generated_structure, last_company_info, lastOk>>
    /\ UNCHANGED concVars

\* GET /
Home ==
    /\ resp' = Response("home", 200, [status |-> "running"])
    /\ calls' = NoCalls
    /\ UNCHANGED <<last_generated_structure, last_company_info, lastOk, downloads>>
    /\ UNCHANGED concVars

Next == GenerateApi \/ DownloadGeneratedPdf \/ Home

Spec == Init /\ [][Next]_vars

-----------------------------------------------------------------------------
(* Rendering alone: a stored outline drawn from every text the generator   *)
(* can have returned, up to MaxLen characters, and one download of it.     *)

Alphabet == {"#", " ", NL, "a", "b"}

TextsUpTo(n) == UNION {[1..k -> Alphabet] : k \in 0..n}

RenderInfo == [url |-> <<"https://", "a.com">>, title |-> <<"A">>, description |-> <<"d">>]

InitRender ==
    /\ \E raw \in TextsUpTo(MaxLen) :
           last_generated_structure = Some(GeneratePitchDeck([ok |-> TRUE, text |-> raw]))
    /\ last_company_info = Some(RenderInfo)
    /\ resp = Response("none", 0, [error |-> "none"])
    /\ calls = NoCalls
    /\ lastOk = NoneVal
    /\ downloads = <<>>
    /\ pc = <<>>
    /\ loc = <<>>
    /\ issued = 0
    /\ overlap = FALSE

NextRender == DownloadGeneratedPdf

SpecRender == InitRender /\ [][NextRender]_vars

-----------------------------------------------------------------------------
(* Requests served concurrently: each worker thread runs one handler at a  *)
(* time, and the handlers interleave between any two accesses to the two   *)
(* globals. What a handler does between those accesses touches only its    *)
(* locals and is part of the step that precedes it.                        *)

NumWorkers == 2         \* threads serving requests
MaxRequests == 3        \* requests accepted in one run

Workers == 1..NumWorkers

\* The n-th request's company and outline, different for every n
ConcInfo(n) ==
    [url |-> <<"https://", ToString(n)>>, title |-> <<"T", ToString(n)>>,
     description |-> <<"d", ToString(n)>>]
ConcOutline(n) == <<"#", " ", "s", ToString(n), NL, "b", ToString(n)>>

IdleLoc ==
    [kind |-> "none", n |-> 0, company_info |-> NoneVal, structure |-> NoneVal,
     title |-> <<>>, url |-> <<>>, description |-> <<>>, quiet |-> TRUE,
     result |-> Response("none", 0, [error |-> "none"])]

InitConc ==
    /\ last_generated_structure = NoneVal
    /\ last_company_info = NoneVal
    /\ resp = Response("none", 0, [error |-> "none"])
    /\ calls = NoCalls
    /\ lastOk = NoneVal
    /\ downloads = <<>>
    /\ pc = [w \in Workers |-> "idle"]
    /\ loc = [w \in Workers |-> IdleLoc]
    /\ issued = 0
    /\ overlap = FALSE

\* Some /generate has executed line 123 and not yet line 124
MidWrite == \E w \in Workers : pc[w] = "line124"

\* A write to a global ends the quiet of every download that is reading
Disturbed(l) ==
    [w \in Workers |->
        IF pc[w] \in {"line144b", "line154", "line156a", "line156b", "line159"}
        THEN [l[w] EXCEPT !.quiet = FALSE] ELSE l[w]]

\* generate_api, lines 100-120: the request is read, the site scraped, the
\* outline generated and the stub called; a failure answers at once
GenerateBegin(w) ==
    /\ pc[w] = "idle"
    /\ issued < MaxRequests
    /\ issued' = issued + 1
    /\ \E body \in {[kind |-> "json", url |-> <<>>],
                      [kind |-> "json", url |-> <<"https://", ToString(issued + 1)>>]} :
          LET n == issued + 1
              scrape == [ok |-> TRUE, title |-> ConcInfo(n).title,
                         description |-> ConcInfo(n).description]
              out == GenerateOutcome(body, scrape, [ok |-> TRUE, text |-> ConcOutline(n)])
          IN IF out.save = NoneVal
             THEN /\ loc' = [loc EXCEPT ![w] =
                                [IdleLoc EXCEPT !.kind = "generate", !.n = n,
                                                !.result = out.resp]]
                  /\ pc' = pc
             ELSE /\ loc' = [loc EXCEPT ![w] =
                                [IdleLoc EXCEPT !.kind = "generate", !.n = n,
                                                !.structure = Val(out.save).structure,
                                                !.company_info = Val(out.save).info,
                                                !.result = out.resp]]
                  /\ pc' = [pc EXCEPT ![w] = "line123"]
    /\ UNCHANGED <<last_generated_structure, last_company_info, overlap>>
    /\ UNCHANGED seqVars

\* The second assignment left out (last_company_info missing from "global")
GenerateSaveInfoSkipped(w) ==
    /\ pc[w] = "line124"
    /\ pc' = [pc EXCEPT ![w] = "idle"]
    /\ UNCHANGED <<last_generated_structure, last_company_info, loc, issued, overlap>>
    /\ UNCHANGED seqVars

\* line 123: last_generated_structure = structure
GenerateSaveStructure(w) ==
    /\ pc[w] = "line123"
    /\ last_generated_structure' = loc[w].structure
    /\ overlap' = (overlap \/ MidWrite)
    /\ loc' = Disturbed(loc)
    /\ pc' = [pc EXCEPT ![w] = "line124"]
    /\ UNCHANGED <<last_company_info, issued>>
    /\ UNCHANGED seqVars

\* line 124: last_company_info = company_info, then the response (126-132)
GenerateSaveInfo(w) ==
    /\ pc[w] = "line124"
    /\ last_company_info' = loc[w].company_info
    /\ loc' = Disturbed(loc)
    /\ pc' = [pc EXCEPT ![w] = "idle"]
    /\ UNCHANGED <<last_generated_structure, issued, overlap>>
    /\ UNCHANGED seqVars

NoPriorResult == Response("download", 400, [error |-> "No recent presentation found"])

\* line 144, first operand: not last_generated_structure
DownloadCheckStructure(w) ==
    /\ pc[w] = "idle"
    /\ issued < MaxRequests
    /\ issued' = issued + 1
    /\ IF Falsy(last_generated_structure)
       THEN /\ loc' = [loc EXCEPT ![w] =
                          [IdleLoc EXCEPT !.kind = "download", !.n = issued + 1,
                                          !.result = NoPriorResult]]
            /\ pc' = pc
       ELSE /\ loc' = [loc EXCEPT ![w] =
                          [IdleLoc EXCEPT !.kind = "download", !.n = issued + 1,
                                          !.quiet = (~MidWrite /\ ~overlap)]]
            /\ pc' = [pc EXCEPT ![w] = "line144b"]
    /\ UNCHANGED <<last_generated_structure, last_company_info, overlap>>
    /\ UNCHANGED seqVars

\* line 144, second operand: not last_company_info
DownloadCheckInfo(w) ==
    /\ pc[w] = "line144b"
    /\ IF last_company_info = NoneVal
       THEN /\ loc' = [loc EXCEPT ![w].result = NoPriorResult]
            /\ pc' = [pc EXCEPT ![w] = "idle"]
       ELSE /\ loc' = loc
            /\ pc' = [pc EXCEPT ![w] = "line154"]
    /\ UNCHANGED <<last_generated_structure, last_company_info, issued, overlap>>
    /\ UNCHANGED seqVars

\* line 154: last_company_info.get('title')
DownloadReadTitle(w) ==
    /\ pc[w] = "line154"
    /\ loc' = [loc EXCEPT ![w].title = Val(last_company_info).title]
    /\ pc' = [pc EXCEPT ![w] = "line156a"]
    /\ UNCHANGED <<last_generated_structure, last_company_info, issued, overlap>>
    /\ UNCHANGED seqVars

\* line 156: last_company_info.get('url')
DownloadReadUrl(w) ==
    /\ pc[w] = "line156a"
    /\ loc' = [loc EXCEPT ![w].url = Val(last_company_info).url]
    /\ pc' = [pc EXCEPT ![w] = "line156b"]
    /\ UNCHANGED <<last_generated_structure, last_company_info, issued, overlap>>
    /\ UNCHANGED seqVars

\* line 156: last_company_info.get('description', '')
DownloadReadDescription(w) ==
    /\ pc[w] = "line156b"
    /\ loc' = [loc EXCEPT ![w].description = Val(last_company_info).description]
    /\ pc' = [pc EXCEPT ![w] = "line159"]
    /\ UNCHANGED <<last_generated_structure, last_company_info, issued, overlap>>
    /\ UNCHANGED seqVars

\* line 159: last_generated_structure.split(...), then the slides, the bytes
\* and the response (lines 160-186)
DownloadReadStructure(w) ==
    /\ pc[w] = "line159"
    /\ loc' = [loc EXCEPT ![w].result =
                  RenderDocument([url |-> loc[w].url, title |-> loc[w].title,
                                  description |-> loc[w].description],
                                 Val(last_generated_structure))]
    /\ pc' = [pc EXCEPT ![w] = "idle"]
    /\ UNCHANGED <<last_generated_structure, last_company_info, issued, overlap>>
    /\ UNCHANGED seqVars

NextConc ==
    \E w \in Workers :
        \/ GenerateBegin(w)
        \/ GenerateSaveStructure(w)
        \/ GenerateSaveInfo(w)
        \/ DownloadCheckStructure(w)
        \/ DownloadCheckInfo(w)
        \/ DownloadReadTitle(w)
        \/ DownloadReadUrl(w)
        \/ DownloadReadDescription(w)
        \/ DownloadReadStructure(w)

SpecConc == InitConc /\ [][NextConc]_vars

-----------------------------------------------------------------------------
(* Reading a document and an outline, for the properties                   *)

RECURSIVE AllCells(_)
AllCells(pages) ==
    IF pages = <<>> THEN <<>> ELSE Head(pages) \o AllCells(Tail(pages))

\* The texts of the cells of one kind, in order
TextsOfKind(cells, kind) ==
    LET sel == SelectSeq(cells, LAMBDA c : c.kind = kind)
    IN [k \in 1..Len(sel) |-> sel[k].text]

\* The slides a document shows, in order: every heading cell opens one, and
\* the body and footer cells up to the next heading belong to it.
DocSlides(pages) ==
    LET cells == AllCells(pages)
        H == {i \in 1..Len(cells) : cells[i].kind = "heading"}
        part(k) == SubSeq(cells, Nth(H, k),
                          IF k = Cardinality(H) THEN Len(cells) ELSE Nth(H, k + 1) - 1)
    IN [k \in 1..Cardinality(H) |->
           [title |-> cells[Nth(H, k)].text,
            body |-> TextsOfKind(part(k), "body"),
            footers |-> SelectSeq(part(k), LAMBDA c : c.kind = "footer")]]

\* The blocks of an outline read line by line: the maximal runs of non-empty
\* lines, each joined as it stands in the text and trimmed, those that are
\* empty after trimming left out.
TrimmedRuns(t) ==
    LET lines == SplitLines(t)
        n == Len(lines)
        nl == {i \in 1..Len(t) : t[i] = NL}
        first(i) == IF i = 1 THEN 1 ELSE Nth(nl, i - 1) + 1
        last(i) == IF i = n THEN Len(t) ELSE Nth(nl, i) - 1
        starts == {i \in 1..n : lines[i] # <<>> /\ (i = 1 \/ lines[i - 1] = <<>>)}
        stop(a) == CHOOSE e \in a..n : /\ \A j \in a..e : lines[j] # <<>>
                                       /\ (e = n \/ lines[e + 1] = <<>>)
        runs == [k \in 1..Cardinality(starts) |->
                    Strip(SubSeq(t, first(Nth(starts, k)), last(stop(Nth(starts, k)))))]
    IN SelectSeq(runs, LAMBDA r : r # <<>>)

\* A first line with its leading '#' characters and its surrounding
\* whitespace removed, and nothing else
LeadingHashesRemoved(line) ==
    LET s == Strip(line)
        keep == {i \in 1..Len(s) : s[i] # "#"}
    IN IF keep = {} THEN <<>>
       ELSE Strip(SubSeq(s, CHOOSE i \in keep : \A j \in keep : i <= j, Len(s)))

IsDocument(r) == r.req = "download" /\ r.status = 200

-----------------------------------------------------------------------------
(* Properties of the rendering, under SpecRender                           *)

\* C1: for a stored outline of N >= 1 blocks the document has exactly N+1
\* pages, the cover first, then one page per block in outline order, the
\* k-th slide page carrying the block's heading and the footer "Slide k/N".
C1_OnePagePerBlock ==
    (resp.req = "download" /\ Len(TrimmedRuns(Val(last_generated_structure))) >= 1) =>
        LET N == Len(TrimmedRuns(Val(last_generated_structure)))
            slides == Slides(Val(last_generated_structure))
        IN /\ IsDocument(resp)
           /\ Len(resp.body.pages) = N + 1
           /\ TextsOfKind(resp.body.pages[1], "cover_title") # <<>>
           /\ \A k \in 1..N :
                 /\ TextsOfKind(resp.body.pages[k + 1], "heading")
                        = <<SlideTitle(Head(SplitLines(slides[k])))>>
                 /\ SelectSeq(resp.body.pages[k + 1], LAMBDA c : c.kind = "footer")
                        = <<FooterCell(k, N)>>

\* C7: the heading of every slide is the first line of its block with the
\* leading '#' characters and the surrounding whitespace removed and nothing
\* else (a trailing '#' is kept); the body is the following lines, in order.
C7_HeadingKeepsTrailingHash ==
    IsDocument(resp) =>
        LET slides == Slides(Val(last_generated_structure))
            doc == DocSlides(resp.body.pages)
        IN /\ Len(doc) = Len(slides)
           /\ \A k \in 1..Len(slides) :
                 /\ doc[k].title = LeadingHashesRemoved(Head(SplitLines(slides[k])))
                 /\ doc[k].body = Tail(SplitLines(slides[k]))

\* C8: the slides of the document are the maximal runs of non-blank (that is,
\* non-empty) lines of the outline, trimmed, in source order: one slide per
\* run that is not empty after trimming, none for a run of blank lines however
\* long, none merged across a blank line, reordered or dropped. The heading
\* comes from the run's first line and the body is the run's other lines.
C8_SlidesAreTheRuns ==
    IsDocument(resp) =>
        LET runs == TrimmedRuns(Val(last_generated_structure))
            doc == DocSlides(resp.body.pages)
        IN /\ resp.body.total = Len(runs)
           /\ Len(doc) = Len(runs)
           /\ \A k \in 1..Len(runs) :
                 /\ runs[k] # <<>>
                 /\ doc[k].title = SlideTitle(Head(SplitLines(runs[k])))
                 /\ doc[k].body = Tail(SplitLines(runs[k]))
                 /\ Len(doc[k].footers) = 1
                 /\ doc[k].footers[1].index = k

\* C8 witness: "a", four newlines, "b" has been rendered as two slides
\* titled "a" and "b".
C8_Witness ==
    /\ IsDocument(resp)
    /\ Val(last_generated_structure) = <<"a", NL, NL, NL, NL, "b">>
    /\ resp.body.total = 2
    /\ TextsOfKind(AllCells(resp.body.pages), "heading") = << <<"a">>, <<"b">> >>

-----------------------------------------------------------------------------
(* Properties of the two handlers, requests served one at a time (Spec)    *)

IsPrefix(p, t) == Len(p) <= Len(t) /\ SubSeq(t, 1, Len(p)) = p

InfoEncodable(info) ==
    Encodable(info.url) /\ Encodable(info.title) /\ Encodable(info.description)

\* The cover shows the company: its title, its URL, and its description
CoverShows(pages, info) ==
    LET lines == TextsOfKind(AllCells(pages), "cover")
    IN /\ TextsOfKind(pages[1], "cover_title") = << <<"Pitch Deck for ">> \o info.title >>
       /\ lines # <<>>
       /\ Head(lines) = <<"Website: ">> \o info.url
       /\ (info.description # <<>> => lines[Len(lines)] = info.description)

\* The slides show the outline: one per block, heading and body in order
SlidesShow(pages, structure) ==
    LET runs == TrimmedRuns(structure)
        doc == DocSlides(pages)
    IN /\ Len(doc) = Len(runs)
       /\ \A k \in 1..Len(runs) :
             /\ doc[k].title = SlideTitle(Head(SplitLines(runs[k])))
             /\ doc[k].body = Tail(SplitLines(runs[k]))

\* C2: a download that arrives when no /generate has yet succeeded returns
\* the 400 "no prior result" error and no document, whatever downloads and
\* failed /generate requests came before.
C2_NoPriorResult ==
    (resp.req = "download" /\ lastOk = NoneVal) =>
        /\ resp.status = 400
        /\ DOMAIN resp.body = {"error"}

\* C2 witness: a second download in a row before any success, answered 400.
C2_Witness ==
    /\ resp.req = "download"
    /\ lastOk = NoneVal
    /\ Len(downloads) = 2
    /\ resp.status = 400

\* C3: after a successful /generate whose generator returned a text without
\* any block (empty, or blank lines and whitespace only), the download
\* returns the one-page, cover-only document with slide total 0, not an
\* error. (Stated for a company info that Latin-1 can encode.)
C3_CoverOnlyDocument ==
    (/\ resp.req = "download"
     /\ lastOk # NoneVal
     /\ Val(lastOk).generator.ok
     /\ TrimmedRuns(Val(lastOk).generator.text) = <<>>
     /\ InfoEncodable(Val(lastOk).company_info)) =>
        /\ IsDocument(resp)
        /\ Len(resp.body.pages) = 1
        /\ resp.body.total = 0

\* C4: when the generator call raises, /generate still answers with success,
\* its deck_structure begins with the error marker and is what is stored, and
\* a later download renders that text as slides, one slide page per block of
\* the error text, instead of an error. (Stated for texts Latin-1 can encode.)
C4_ErrorTextRendered ==
    /\ (resp.req = "generate" /\ calls.generator_raised) =>
          /\ resp.status = 200
          /\ IsPrefix(ErrorMarker, resp.body.deck_structure)
          /\ last_generated_structure = Some(resp.body.deck_structure)
    /\ (/\ resp.req = "download"
        /\ lastOk # NoneVal
        /\ ~Val(lastOk).generator.ok
        /\ InfoEncodable(Val(lastOk).company_info)
        /\ Encodable(Val(lastOk).deck_structure)) =>
          /\ IsDocument(resp)
          /\ SlidesShow(resp.body.pages, Val(lastOk).deck_structure)
          /\ Len(resp.body.pages) = 1 + Len(TrimmedRuns(Val(lastOk).deck_structure))

\* What C5 says of the response to a /generate and of the calls it made
C5_Shape ==
    /\ calls.scraper <= 1
    /\ (calls.request = "missing_url" \/ calls.scrape_failed) =>
          /\ resp.status = 400
          /\ calls.generator = 0
          /\ calls.stub = 0
    /\ calls.request = "malformed" => resp.status = 500
    /\ resp.status # 200 =>
          /\ resp.status \in {400, 500}
          /\ DOMAIN resp.body = {"error"}

\* C5: a /generate that fails returns only an error object with status 400
\* (missing url, scrape failure; generator and stub not invoked) or 500 (an
\* exception elsewhere) and leaves both globals as they were; the scraper is
\* called at most once per request.
C5_FailedGenerateChangesNothing ==
    [][resp'.req = "generate" =>
          /\ C5_Shape'
          /\ (resp'.status # 200 =>
                 UNCHANGED <<last_generated_structure, last_company_info>>)]_vars

\* C5 witness: a scrape failure answered 400 while an earlier result is stored.
C5_Witness ==
    /\ resp.req = "generate"
    /\ resp.status = 400
    /\ calls.scrape_failed
    /\ last_generated_structure # NoneVal
    /\ last_company_info # NoneVal

\* C6: a download never modifies the two globals, and two downloads with no
\* successful /generate between them return the same document (or the same
\* error).
C6_DownloadsRepeat ==
    [][resp'.req = "download" =>
          /\ UNCHANGED <<last_generated_structure, last_company_info>>
          /\ (Len(downloads') = 2 => downloads'[1] = downloads'[2])]_vars

\* C6 witness: the same document has been downloaded twice.
C6_Witness ==
    /\ Len(downloads) = 2
    /\ IsDocument(downloads[1])
    /\ IsDocument(downloads[2])
    /\ Len(downloads[2].body.pages) > 1

\* C9: the globals hold exactly the company info and the outline that the
\* most recent successful /generate returned (nothing before the first
\* success, nothing of an earlier success after a later one), and a document
\* that a download returns shows that company on its cover and that outline
\* in its slides.
C9_LatestSuccessOnly ==
    /\ lastOk = NoneVal =>
          last_generated_structure = NoneVal /\ last_company_info = NoneVal
    /\ lastOk # NoneVal =>
          /\ last_generated_structure = Some(Val(lastOk).deck_structure)
          /\ last_company_info = Some(Val(lastOk).company_info)
    /\ IsDocument(resp) =>
          /\ lastOk # NoneVal
          /\ CoverShows(resp.body.pages, Val(lastOk).company_info)
          /\ SlidesShow(resp.body.pages, Val(lastOk).deck_structure)

\* C9 witness: a document downloaded after a success that replaced an earlier
\* success for another company and another outline.
C9_Witness ==
    /\ IsDocument(resp)
    /\ lastOk # NoneVal
    /\ Val(lastOk).replaced
    /\ Len(DocSlides(resp.body.pages)) >= 2

-----------------------------------------------------------------------------
(* Properties of concurrent serving (SpecConc)                             *)

\* The two globals hold nothing, or the outline and the company of one request
Paired ==
    \/ last_generated_structure = NoneVal /\ last_company_info = NoneVal
    \/ \E n \in 1..MaxRequests :
          /\ last_generated_structure = Some(ConcOutline(n))
          /\ last_company_info = Some(ConcInfo(n))

\* Cover and slides of a document are those of one request
FromOneRequest(pages) ==
    \E n \in 1..MaxRequests :
        /\ CoverShows(pages, ConcInfo(n))
        /\ SlidesShow(pages, ConcOutline(n))

AllIdle == \A w \in Workers : pc[w] = "idle"

====
